---------------------------- MODULE Spec2Model ----------------------------
(***************************************************************************)
(* Model of SingularityAutobuild: the recipe naming parser, the local      *)
(* dependency classifier, the dependency resolver and the sanity checker   *)
(* of singularity_autobuild/image_recipe_tools.py, and the driver loop of  *)
(* singularity_autobuild/__main__.py.                                      *)
(*                                                                         *)
(* Text is modelled as a sequence of symbols.  The symbols "/", "." and    *)
(* ":" are the characters the regular expressions and the path functions   *)
(* of the program treat specially, " " is one whitespace character; every  *)
(* other symbol ("recipe", "latest", "host", "x", "1", ...) stands for a   *)
(* non-empty word of ordinary characters.                                  *)
(***************************************************************************)
EXTENDS Integers, Sequences, FiniteSets, TLC

VARIABLES
    files,              \* the file system: absolute path -> lines of the file
    hostname,           \* os.environ: <<>> when SREGISTRY_HOSTNAME is unset, else <<value>>
    caller,             \* "main" (the list is recipe_finder's) or "direct" (a call of dependency_resolver)
    recipe_file_paths,  \* argument of dependency_resolver
    recipe_base_path,   \* argument of dependency_resolver
    pc,                 \* position of the run
    i,                  \* position of dependency_resolver's for loop
    stack,              \* active calls of dependency_drill_down, innermost last
    dependency_dict,    \* _dependency_dict: [keys: insertion order, depth: key -> depth]
    result,             \* what dependency_resolver returned: <<>> nothing yet, else <<list>>
    err,                \* the exception that ended the run
    reads,              \* recipe files opened so far
    searches,           \* glob searches done so far: [value, pattern]
    k,                  \* position of main's for loop over the build order
    builder,            \* the Builder of the recipe main is working on
    registry,           \* images the sregistry holds
    queried,            \* recipes main asked the sregistry about
    built,              \* recipes main ran the image build for
    uploaded,           \* recipes main called image_pusher for
    probe,              \* a single call of one function: [op, arg, out]
    images,             \* image files on the local disk, by path
    changed_files,      \* GitLabPushEventInfo.changed_files: path -> change type
    log                 \* what main did so far, one entry per step

vars == <<files, hostname, caller, recipe_file_paths, recipe_base_path, pc, i,
          stack, dependency_dict, result, err, reads, searches, k, builder,
          registry, queried, built, uploaded, probe, images, changed_files, log>>

-----------------------------------------------------------------------------
(* Bounds                                                                  *)

\* most recipe files in the file system
MaxFiles == 3
\* nesting of dependency_drill_down calls at which the interpreter raises
\* RecursionError (sys.getrecursionlimit(), scaled down)
RecursionLimit == 4

-----------------------------------------------------------------------------
(* Text helpers                                                            *)

Slash == <<"/">>
Dot == <<".">>
Colon == <<":">>
RecipeSuffix == <<".", "recipe">>

\* s[from..Len(s)]
Tail_from(s, from) == SubSeq(s, from, Len(s))

\* positions of the symbol ch in s
Positions(s, ch) == {n \in 1..Len(s) : s[n] = ch}

Min(S) == CHOOSE n \in S : \A m \in S : n <= m
Max(S) == CHOOSE n \in S : \A m \in S : n >= m

StartsWith(s, p) == Len(p) <= Len(s) /\ SubSeq(s, 1, Len(p)) = p
EndsWith(s, p) == Len(p) <= Len(s) /\ SubSeq(s, Len(s) - Len(p) + 1, Len(s)) = p

\* Python's `h in v` on text
IsSubstring(h, v) ==
    \E n \in 1..(Len(v) + 1) :
        n + Len(h) - 1 <= Len(v) /\ SubSeq(v, n, n + Len(h) - 1) = h

\* the elements of a sequence
Range(s) == {s[n] : n \in 1..Len(s)}

\* all sequences over S of length lo..hi
SeqsOf(S, lo, hi) == UNION {[1..n -> S] : n \in lo..hi}

\* all orderings of the finite set S
Permutations_of(S) ==
    {p \in [1..Cardinality(S) -> S] : \A a, b \in 1..Cardinality(S) : a # b => p[a] # p[b]}

-----------------------------------------------------------------------------
(* Recipe naming parser                                                    *)

\* posixpath.basename: the text after the last "/"
os_path_basename(p) ==
    IF Positions(p, "/") = {} THEN p ELSE Tail_from(p, Max(Positions(p, "/")) + 1)

\* str.rstrip('/')
RStripSlash(s) ==
    IF \A n \in 1..Len(s) : s[n] = "/" THEN <<>>
    ELSE SubSeq(s, 1, Max({n \in 1..Len(s) : s[n] # "/"}))

\* posixpath.dirname: the text up to the last "/", trailing slashes removed
\* unless it consists of slashes only
os_path_dirname(p) ==
    IF Positions(p, "/") = {} THEN <<>>
    ELSE LET head == SubSeq(p, 1, Max(Positions(p, "/")))
         IN  IF \A n \in 1..Len(head) : head[n] = "/" THEN head ELSE RStripSlash(head)

get_collection_from_recipe_path(recipe_file_full_path) ==
    os_path_basename(os_path_dirname(recipe_file_full_path))

\* re.findall(r'\..+?\.', name) is non-empty: two dots with text between them
HasVersionPart(name) ==
    \E a, b \in Positions(name, ".") : b >= a + 2

\* re.sub(r'^.*?\.(.+)\.recipe$', r'\1', name): the pattern matches when the
\* name ends in ".recipe" and a dot precedes at least one symbol before that
\* suffix; the lazy prefix stops at the first such dot.  No match leaves the
\* name unchanged.
SubVersion(name) ==
    LET firsts == {n \in Positions(name, ".") : n <= Len(name) - 3}
    IN  IF EndsWith(name, RecipeSuffix) /\ firsts # {}
        THEN SubSeq(name, Min(firsts) + 1, Len(name) - 2)
        ELSE name

get_version_from_recipe_swapped(recipe_file_name) ==
    IF HasVersionPart(recipe_file_name)
    THEN LET lasts == {n \in Positions(recipe_file_name, ".") : n <= Len(recipe_file_name) - 3}
         IN  IF EndsWith(recipe_file_name, RecipeSuffix) /\ lasts # {}
             THEN SubSeq(recipe_file_name, Max(lasts) + 1, Len(recipe_file_name) - 2)
             ELSE recipe_file_name
    ELSE <<"latest">>

get_version_from_recipe(recipe_file_name) ==
    IF HasVersionPart(recipe_file_name)
    THEN SubVersion(recipe_file_name)
    ELSE <<"latest">>

\* re.sub(r'(^.*?)\..*$', r'\1', name): the text before the first dot
get_image_name_from_recipe(recipe_file_name) ==
    IF Positions(recipe_file_name, ".") = {} THEN recipe_file_name
    ELSE SubSeq(recipe_file_name, 1, Min(Positions(recipe_file_name, ".")) - 1)

-----------------------------------------------------------------------------
(* Reading a recipe's Bootstrap and From values                            *)

\* re.IGNORECASE on the header words
Lower(w) ==
    CASE w \in {"Bootstrap", "BOOTSTRAP", "bootstrap"} -> "bootstrap"
      [] w \in {"From", "FROM", "from"} -> "from"
      [] OTHER -> w

\* str.strip(): whitespace removed at both ends
Strip(line) ==
    LET keep == {n \in 1..Len(line) : line[n] # " "}
    IN  IF keep = {} THEN <<>> ELSE SubSeq(line, Min(keep), Max(keep))

\* re.match(r'^<header>:\s(.*?)$', line, re.IGNORECASE)
HeaderMatches(line, header) ==
    /\ Len(line) >= 3
    /\ Lower(line[1]) = header
    /\ line[2] = ":"
    /\ line[3] = " "

\* re.sub of the same pattern with r'\1': the text after the one whitespace
HeaderValue(line) == Tail_from(line, 4)

\* The for loop over the lines of the file: state <<_bootstrap, _from>> after
\* the lines n..Len(lines), starting from <<b, f>>; the loop breaks as soon as
\* both are non-empty.
RECURSIVE ScanLines(_, _, _, _)
ScanLines(lines, n, b, f) ==
    IF n > Len(lines) THEN <<b, f>>
    ELSE LET line == Strip(lines[n])
             b2 == IF HeaderMatches(line, "bootstrap") THEN HeaderValue(line) ELSE b
             f2 == IF HeaderMatches(line, "from") THEN HeaderValue(line) ELSE f
         IN  IF b2 # <<>> /\ f2 # <<>> THEN <<b2, f2>>
             ELSE ScanLines(lines, n + 1, b2, f2)

\* each value taken from the first line that matches its header
get_dependency_from_recipe_first_lines(lines) ==
    LET bs == {n \in 1..Len(lines) : HeaderMatches(Strip(lines[n]), "bootstrap")}
        fs == {n \in 1..Len(lines) : HeaderMatches(Strip(lines[n]), "from")}
    IN  IF bs = {} \/ fs = {}
        THEN [ok |-> FALSE, bootstrap |-> <<>>, from |-> <<>>]
        ELSE [ok |-> TRUE, bootstrap |-> HeaderValue(Strip(lines[Min(bs)])),
              from |-> HeaderValue(Strip(lines[Min(fs)]))]

get_dependency_from_recipe_one_suffices(lines) ==
    LET r == ScanLines(lines, 1, <<>>, <<>>)
    IN  IF r[1] = <<>> /\ r[2] = <<>>
        THEN [ok |-> FALSE, bootstrap |-> <<>>, from |-> <<>>]
        ELSE [ok |-> TRUE, bootstrap |-> r[1], from |-> r[2]]

\* [ok |-> FALSE] stands for UserWarning('Recipe at ... is invalid'); the
\* returned dict {_bootstrap: _from} has the one key bootstrap.
get_dependency_from_recipe(lines) ==
    LET r == ScanLines(lines, 1, <<>>, <<>>)
    IN  IF r[1] = <<>> \/ r[2] = <<>>
        THEN [ok |-> FALSE, bootstrap |-> <<>>, from |-> <<>>]
        ELSE [ok |-> TRUE, bootstrap |-> r[1], from |-> r[2]]

-----------------------------------------------------------------------------
(* Local-dependency classifier                                             *)

\* re.sub(r'^http[s]?:\/\/(.*)$', r'\1', raw)
StripScheme(raw) ==
    IF Len(raw) >= 4 /\ raw[1] \in {"http", "https"}
       /\ raw[2] = ":" /\ raw[3] = "/" /\ raw[4] = "/"
    THEN Tail_from(raw, 5)
    ELSE raw

\* os.environ['SREGISTRY_HOSTNAME'] raises KeyError when the variable is unset
HostnameSet == hostname # <<>>

is_own_dependency_scheme_kept(recipe_dependency_value) ==
    IsSubstring(hostname[1], recipe_dependency_value)

\* evaluated only where HostnameSet
is_own_dependency(recipe_dependency_value) ==
    IsSubstring(StripScheme(hostname[1]), recipe_dependency_value)

\* _dependency_value_regex, searched in the value:
\*   ^(?:.*?\/)?(?P<collection>.+?)\/(?P<container>.+?)(?::(?P<version>.*?))?$
\* The optional host part is tried first and ends at the earliest "/" after
\* which a non-empty collection, a "/" and a non-empty container can follow;
\* without such a "/" the host part is left out.  The collection ends at the
\* next "/" that leaves text for the container.  The container ends before
\* the first ":" behind its first symbol; the version is the rest.  A group
\* that took no part in the match is None in groupdict().
ParseDependency(v) ==
    LET slashes == Positions(v, "/")
        \* a collection starting behind position h can end at these slashes
        collEnds(h) == {j \in slashes : j >= h + 2 /\ j < Len(v)}
        hosts == {h \in slashes : collEnds(h) # {}}
        h0 == IF hosts # {} THEN Min(hosts) ELSE 0
    IN  IF collEnds(h0) = {}
        THEN [matched |-> FALSE, collection |-> <<>>, container |-> <<>>,
              has_version |-> FALSE, version |-> <<>>]
        ELSE LET j == Min(collEnds(h0))
                 rest == Tail_from(v, j + 1)
                 colons == {c \in Positions(rest, ":") : c >= 2}
             IN  IF colons = {}
                 THEN [matched |-> TRUE, collection |-> SubSeq(v, h0 + 1, j - 1),
                       container |-> rest, has_version |-> FALSE, version |-> <<>>]
                 ELSE [matched |-> TRUE, collection |-> SubSeq(v, h0 + 1, j - 1),
                       container |-> SubSeq(rest, 1, Min(colons) - 1),
                       has_version |-> TRUE,
                       version |-> Tail_from(rest, Min(colons) + 1)]

\* str.format of the version group: None is written "None"
FormatVersion(d) == IF d.has_version THEN d.version ELSE <<"None">>

\* _glob_string.  groupdict() always has the key 'version', so the key is
\* absent only after the pop for 'latest'; `_glob_dict != 'latest'` compares
\* a dict with a str and is always true.
GlobString(d, basepath) ==
    IF d.has_version /\ d.version = <<"latest">>
    THEN basepath \o <<"/", "**", "/">> \o d.collection \o Slash
         \o d.container \o RecipeSuffix
    ELSE basepath \o <<"/", "**", "/">> \o d.collection \o Slash
         \o d.container \o Dot \o FormatVersion(d) \o RecipeSuffix

\* os.path.abspath with the working directory "/"
os_path_abspath(p) == IF StartsWith(p, Slash) THEN p ELSE Slash \o p

\* the spellings under which glob can report the files of the file system
Spellings == DOMAIN files \cup {Tail(f) : f \in DOMAIN files}

\* glob.glob(pattern, recursive=True) for a pattern <prefix>/**/<tail> without
\* other wildcards: "**" stands for zero or more directories
Glob(pattern) ==
    LET q == Min(Positions(pattern, "**"))
        prefix == SubSeq(pattern, 1, q - 2)
        tail == Tail_from(pattern, q + 2)
    IN  {g \in Spellings :
            /\ StartsWith(g, prefix \o Slash)
            /\ EndsWith(g, Slash \o tail)
            /\ Len(g) >= Len(prefix) + 1 + Len(tail)}

NoPath == <<>>

\* get_path_from_dependency was not called
NotSearched == [kind |-> "none", path |-> NoPath, paths |-> {}, pattern |-> <<>>]

\* kind: "notown" returns '', "attribute" is the AttributeError of
\* None.groupdict(), "collision" and "unresolved" are the RuntimeErrors,
\* "ok" returns _glob_results[0]
get_path_from_dependency(recipe_dependency_value, recipe_base_folder_path) ==
    LET d == ParseDependency(recipe_dependency_value)
        pattern == GlobString(d, recipe_base_folder_path)
        found == Glob(pattern)
    IN  IF ~is_own_dependency(recipe_dependency_value)
        THEN [kind |-> "notown", path |-> NoPath, paths |-> {}, pattern |-> <<>>]
        ELSE IF ~d.matched
        THEN [kind |-> "attribute", path |-> NoPath, paths |-> {}, pattern |-> <<>>]
        ELSE IF Cardinality(found) > 1
        THEN [kind |-> "collision", path |-> NoPath, paths |-> found, pattern |-> pattern]
        ELSE IF found = {}
        THEN [kind |-> "unresolved", path |-> NoPath, paths |-> {}, pattern |-> pattern]
        ELSE [kind |-> "ok", path |-> CHOOSE g \in found : TRUE, paths |-> found,
              pattern |-> pattern]

-----------------------------------------------------------------------------
(* Sanity checker                                                          *)

\* "%s/%s:%s" % (collection, image name, version)
image_full_name(recipe) ==
    get_collection_from_recipe_path(recipe) \o Slash
    \o get_image_name_from_recipe(os_path_basename(recipe)) \o Colon
    \o get_version_from_recipe(os_path_basename(recipe))

NoError == [kind |-> "none", first |-> NoPath, second |-> NoPath, paths |-> {}]

recipe_list_sanity_check_names_only(paths) ==
    LET name(p) == get_image_name_from_recipe(os_path_basename(p)) \o Colon
                   \o get_version_from_recipe(os_path_basename(p))
        repeats == {n \in 1..Len(paths) : \E m \in 1..(n - 1) : name(paths[m]) = name(paths[n])}
    IN  IF repeats = {} THEN NoError
        ELSE LET n == Min(repeats)
                 m == Min({a \in 1..(n - 1) : name(paths[a]) = name(paths[n])})
             IN  [kind |-> "collision", first |-> paths[m], second |-> paths[n], paths |-> {}]

\* The loop raises at the first entry whose full name is already a key of
\* _uniqueness_counter; the value stored under that key is the first path
\* that had the name.  NoError stands for the return of None.
recipe_list_sanity_check(paths) ==
    LET repeats == {n \in 1..Len(paths) :
                        \E m \in 1..(n - 1) : image_full_name(paths[m]) = image_full_name(paths[n])}
    IN  IF repeats = {} THEN NoError
        ELSE LET n == Min(repeats)
                 m == Min({a \in 1..(n - 1) : image_full_name(paths[a]) = image_full_name(paths[n])})
             IN  [kind |-> "collision", first |-> paths[m], second |-> paths[n], paths |-> {}]

-----------------------------------------------------------------------------
(* Dependency resolver                                                     *)

EmptyDict == [keys |-> <<>>, depth |-> <<>>]

\* a lookup that never finds a key
InDict_never(d, path) == FALSE

\* `recipe_path in dependency_dict`
InDict(d, path) == path \in DOMAIN d.depth

\* the dict replaced by one that holds the new entry only
DictUpdate_fresh(d, path, value) ==
    [keys |-> <<path>>, depth |-> [p \in {path} |-> value]]

\* the value replaced by the number of entries recorded before
DictUpdate_counting(d, path, value) ==
    [keys |-> IF InDict(d, path) THEN d.keys ELSE Append(d.keys, path),
     depth |-> [p \in DOMAIN d.depth \cup {path} |->
                    IF p = path THEN Len(d.keys) ELSE d.depth[p]]]

\* dict.update({path: value}): a new key goes to the end of the insertion
\* order, a known key keeps its place
DictUpdate(d, path, value) ==
    [keys |-> IF InDict(d, path) THEN d.keys ELSE Append(d.keys, path),
     depth |-> [p \in DOMAIN d.depth \cup {path} |->
                    IF p = path THEN value ELSE d.depth[p]]]

MaxDepth(d) == IF DOMAIN d.depth = {} THEN 0 ELSE Max({d.depth[p] : p \in DOMAIN d.depth})

RECURSIVE SortFrom(_, _)
SortFrom(d, level) ==
    IF level > MaxDepth(d) THEN <<>>
    ELSE SelectSeq(d.keys, LAMBDA p : d.depth[p] = level) \o SortFrom(d, level + 1)

\* the keys in descending depth
sorted_descending(d) ==
    LET up == SortFrom(d, 0)
    IN  [n \in 1..Len(up) |-> up[Len(up) + 1 - n]]

\* a sort that is not stable: equal depths come out in reverse insertion order
sorted_ties_reversed(d) ==
    SortFrom([keys |-> [n \in 1..Len(d.keys) |-> d.keys[Len(d.keys) + 1 - n]],
              depth |-> d.depth], 0)

\* sorted(_dependency_dict, key=_dependency_dict.__getitem__): the keys in
\* ascending depth; the sort is stable, so equal depths keep insertion order
sorted_by_depth(d) == SortFrom(d, 0)

\* open(recipe_path): the lines of the file
FileLines(path) == files[os_path_abspath(path)]

increment_none(depth) == depth

\* dependency_dict[_parent_file_path]+1
increment(depth) == depth + 1

\* a body that takes a missing hostname for "not an own dependency"
DrillBody_missing_host_is_foreign(recipe_path) ==
    LET dep == get_dependency_from_recipe(FileLines(recipe_path))
        found == get_path_from_dependency(dep.from, recipe_base_path)
    IN  IF ~dep.ok THEN [kind |-> "invalid", found |-> NotSearched]
        ELSE IF dep.bootstrap # <<"shub">> THEN [kind |-> "zero", found |-> NotSearched]
        ELSE IF ~HostnameSet THEN [kind |-> "zero", found |-> NotSearched]
        ELSE IF ~is_own_dependency(dep.from) THEN [kind |-> "zero", found |-> NotSearched]
        ELSE IF found.kind = "ok" THEN [kind |-> "recurse", found |-> found]
        ELSE [kind |-> found.kind, found |-> found]

\* a body that takes the bootstrap value "shub" in any case of its letters
DrillBody_any_case(recipe_path) ==
    LET dep == get_dependency_from_recipe(FileLines(recipe_path))
        found == get_path_from_dependency(dep.from, recipe_base_path)
    IN  IF ~dep.ok THEN [kind |-> "invalid", found |-> NotSearched]
        ELSE IF dep.bootstrap \notin {<<"shub">>, <<"SHUB">>}
        THEN [kind |-> "zero", found |-> NotSearched]
        ELSE IF ~HostnameSet THEN [kind |-> "nohost", found |-> NotSearched]
        ELSE IF ~is_own_dependency(dep.from) THEN [kind |-> "zero", found |-> NotSearched]
        ELSE IF found.kind = "ok" THEN [kind |-> "recurse", found |-> found]
        ELSE [kind |-> found.kind, found |-> found]

\* What the body of dependency_drill_down does for recipe_path when the path
\* is not yet a key of the dict, up to the recursive call:
\*   "invalid"    get_dependency_from_recipe raises UserWarning
\*   "zero"       depth 0 is recorded (not shub, or not an own dependency)
\*   "nohost"     is_own_dependency raises KeyError
\*   "recurse"    the parent was found, the function calls itself on it
\*   otherwise    the kind of failure of get_path_from_dependency
DrillBody(recipe_path) ==
    LET dep == get_dependency_from_recipe(FileLines(recipe_path))
        found == get_path_from_dependency(dep.from, recipe_base_path)
    IN  IF ~dep.ok THEN [kind |-> "invalid", found |-> NotSearched]
        ELSE IF dep.bootstrap # <<"shub">> THEN [kind |-> "zero", found |-> NotSearched]
        ELSE IF ~HostnameSet THEN [kind |-> "nohost", found |-> NotSearched]
        ELSE IF ~is_own_dependency(dep.from) THEN [kind |-> "zero", found |-> NotSearched]
        ELSE IF found.kind = "ok" THEN [kind |-> "recurse", found |-> found]
        ELSE [kind |-> found.kind, found |-> found]

Frame(path) == [recipe_path |-> path, parent |-> NoPath]
Top == stack[Len(stack)]
Pop == SubSeq(stack, 1, Len(stack) - 1)
\* where control goes when the innermost call returns
AfterReturn == IF Len(stack) = 1 THEN "loop" ELSE "return"

\* a failure that is taken for the end of the work: the order of the recipes
\* handled so far is returned
Raise_best_effort(e) ==
    /\ pc' = "done"
    /\ err' = e
    /\ result' = <<sorted_by_depth(dependency_dict)>>

\* an exception leaves dependency_resolver, and main, which has no handler
\* around the call: nothing is returned and the run is over
Raise(e) ==
    /\ pc' = "error"
    /\ err' = e
    /\ UNCHANGED result

sanity_check_skipped(paths) == NoError

\* the check dependency_resolver applies to its list before the loop
resolver_precheck(paths) == recipe_list_sanity_check(paths)

\* dependency_resolver, up to its loop: recipe_list_sanity_check and the
\* creation of _dependency_dict
SanityCheck ==
    /\ pc = "start"
    /\ LET e == resolver_precheck(recipe_file_paths)
       IN  IF e.kind = "none"
           THEN pc' = "loop" /\ UNCHANGED <<err, result>>
           ELSE Raise(e)
    /\ UNCHANGED <<files, hostname, caller, recipe_file_paths, recipe_base_path, i,
                   stack, dependency_dict, reads, searches, k, builder,
                   registry, queried, built, uploaded, probe, images, changed_files, log>>

\* one round of `for recipe in recipe_file_paths`: the call of
\* dependency_drill_down
LoopCall ==
    /\ pc = "loop"
    /\ i <= Len(recipe_file_paths)
    /\ stack' = <<Frame(recipe_file_paths[i])>>
    /\ i' = i + 1
    /\ pc' = "call"
    /\ UNCHANGED <<files, hostname, caller, recipe_file_paths, recipe_base_path,
                   dependency_dict, result, err, reads, searches, k, builder,
                   registry, queried, built, uploaded, probe, images, changed_files, log>>

\* the end of the loop: the sorted keys are returned
LoopEnd ==
    /\ pc = "loop"
    /\ i > Len(recipe_file_paths)
    /\ result' = <<sorted_by_depth(dependency_dict)>>
    /\ pc' = "done"
    /\ UNCHANGED <<files, hostname, caller, recipe_file_paths, recipe_base_path, i,
                   stack, dependency_dict, err, reads, searches, k, builder,
                   registry, queried, built, uploaded, probe, images, changed_files, log>>

\* dependency_drill_down: `if recipe_path in dependency_dict: return`
DrillMemoHit ==
    /\ pc = "call"
    /\ InDict(dependency_dict, Top.recipe_path)
    /\ stack' = Pop
    /\ pc' = AfterReturn
    /\ UNCHANGED <<files, hostname, caller, recipe_file_paths, recipe_base_path, i,
                   dependency_dict, result, err, reads, searches, k, builder,
                   registry, queried, built, uploaded, probe, images, changed_files, log>>

\* the glob search of get_path_from_dependency, when the body gets that far
SearchOf(body, value) ==
    IF body.kind \in {"recurse", "collision", "unresolved"}
    THEN {[value |-> value, pattern |-> body.found.pattern]}
    ELSE {}

\* dependency_drill_down: the recipe is read and gets depth 0
DrillZero ==
    /\ pc = "call"
    /\ ~InDict(dependency_dict, Top.recipe_path)
    /\ DrillBody(Top.recipe_path).kind = "zero"
    /\ reads' = reads \cup {Top.recipe_path}
    /\ dependency_dict' = DictUpdate(dependency_dict, Top.recipe_path, 0)
    /\ stack' = Pop
    /\ pc' = AfterReturn
    /\ UNCHANGED <<files, hostname, caller, recipe_file_paths, recipe_base_path, i,
                   result, err, searches, k, builder, registry, queried, built,
                   uploaded, probe, images, changed_files, log>>

\* dependency_drill_down: reading the recipe, the hostname lookup or the
\* search for the parent raises; the exception leaves every active call and
\* dependency_resolver
DrillRaise ==
    /\ pc = "call"
    /\ ~InDict(dependency_dict, Top.recipe_path)
    /\ LET body == DrillBody(Top.recipe_path)
           dep == get_dependency_from_recipe(FileLines(Top.recipe_path))
       IN  /\ body.kind \in {"invalid", "nohost", "attribute", "collision", "unresolved"}
           /\ searches' = searches \cup SearchOf(body, dep.from)
           /\ Raise([kind |-> body.kind, first |-> Top.recipe_path, second |-> NoPath,
                     paths |-> body.found.paths])
    /\ reads' = reads \cup {Top.recipe_path}
    /\ UNCHANGED <<files, hostname, caller, recipe_file_paths, recipe_base_path, i,
                   stack, dependency_dict, k, builder, registry, queried,
                   built, uploaded, probe, images, changed_files, log>>

\* dependency_drill_down: the parent recipe was found and the function calls
\* itself on it; the interpreter raises RecursionError when the calls nest
\* deeper than its limit
DrillRecurse ==
    /\ pc = "call"
    /\ ~InDict(dependency_dict, Top.recipe_path)
    /\ LET body == DrillBody(Top.recipe_path)
           dep == get_dependency_from_recipe(FileLines(Top.recipe_path))
       IN  /\ body.kind = "recurse"
           /\ searches' = searches \cup SearchOf(body, dep.from)
           /\ IF Len(stack) >= RecursionLimit
              THEN /\ Raise([kind |-> "recursion", first |-> Top.recipe_path,
                             second |-> NoPath, paths |-> {}])
                   /\ UNCHANGED stack
              ELSE /\ stack' = Append([stack EXCEPT ![Len(stack)].parent = body.found.path],
                                      Frame(body.found.path))
                   /\ UNCHANGED <<pc, err, result>>
    /\ reads' = reads \cup {Top.recipe_path}
    /\ UNCHANGED <<files, hostname, caller, recipe_file_paths, recipe_base_path, i,
                   dependency_dict, k, builder, registry, queried, built,
                   uploaded, probe, images, changed_files, log>>

\* dependency_drill_down after the recursive call returned: the recipe gets
\* the depth of its parent plus one
DrillReturn ==
    /\ pc = "return"
    /\ dependency_dict' = DictUpdate(dependency_dict, Top.recipe_path,
                                     increment(dependency_dict.depth[Top.parent]))
    /\ stack' = Pop
    /\ pc' = AfterReturn
    /\ UNCHANGED <<files, hostname, caller, recipe_file_paths, recipe_base_path, i,
                   result, err, reads, searches, k, builder, registry, queried,
                   built, uploaded, probe, images, changed_files, log>>

-----------------------------------------------------------------------------
(* Inputs                                                                  *)

\* the search root and the recipe files that may lie under it
Root == <<"/", "r">>
File_x == Root \o <<"/", "c", "/", "x", ".", "recipe">>
File_y1 == Root \o <<"/", "c", "/", "y", ".", "1", ".", "recipe">>
File_z10 == Root \o <<"/", "c", "/", "z", ".", "1", ".", "0", ".", "recipe">>
File_sub_x == Root \o <<"/", "s", "/", "c", "/", "x", ".", "recipe">>
CandidateFiles == {File_x, File_y1, File_z10, File_sub_x}

\* the text of a recipe with the two header lines
Recipe(bootstrap_word, bootstrap, from_word, from) ==
    << <<bootstrap_word, ":", " ">> \o bootstrap, <<"%post">>,
       <<from_word, ":", " ">> \o from >>

Contents ==
    { Recipe("Bootstrap", <<"docker">>, "From", <<"ubuntu">>),
      Recipe("Bootstrap", <<"shub">>, "From", <<"host", "/", "c", "/", "x", ":", "latest">>),
      Recipe("BOOTSTRAP", <<"shub">>, "FROM", <<"host", "/", "c", "/", "x">>),
      Recipe("bootstrap", <<"shub">>, "from", <<"host", "/", "c", "/", "y", ":", "1">>),
      Recipe("Bootstrap", <<"shub">>, "From", <<"other", "/", "c", "/", "x", ":", "latest">>),
      << <<"Bootstrap", ":", " ", "shub">>, <<"%post">> >> }

\* SREGISTRY_HOSTNAME: unset, or the registry's address
Hostnames == { <<>>, << <<"https", ":", "/", "/", "host">> >> }

\* a recipe whose bootstrap value is "shub" in another case
ResolverContents ==
    Contents \cup
    { Recipe("Bootstrap", <<"SHUB">>, "From", <<"host", "/", "c", "/", "x", ":", "latest">>) }

FileSystems ==
    UNION {[S -> ResolverContents] : S \in {T \in SUBSET CandidateFiles :
                                        T # {} /\ Cardinality(T) <= MaxFiles}}

\* lists of distinct paths of the set S, in any order
ListsOf(S) == UNION {Permutations_of(T) : T \in SUBSET S \ {{}}}

\* the values every variable of the driver has before it runs
DriverIdle ==
    /\ k = 1
    /\ builder = <<>>
    /\ registry = {}
    /\ queried = {}
    /\ built = {}
    /\ uploaded = {}
    /\ images = {}
    /\ changed_files = <<>>
    /\ log = <<>>

ResolverStart ==
    /\ pc = "start"
    /\ i = 1
    /\ stack = <<>>
    /\ dependency_dict = EmptyDict
    /\ result = <<>>
    /\ err = NoError
    /\ reads = {}
    /\ searches = {}

\* a call of dependency_resolver on a list of recipes of the file system
Init ==
    /\ files \in FileSystems
    /\ hostname \in Hostnames
    /\ caller = "direct"
    /\ recipe_file_paths \in ListsOf(DOMAIN files)
    /\ recipe_base_path = Root
    /\ ResolverStart
    /\ DriverIdle
    /\ probe = <<>>

Next ==
    \/ SanityCheck
    \/ LoopCall
    \/ LoopEnd
    \/ DrillMemoHit
    \/ DrillZero
    \/ DrillRaise
    \/ DrillRecurse
    \/ DrillReturn

Spec == Init /\ [][Next]_vars

-----------------------------------------------------------------------------
(* The image builder: singularity_builder.Builder                          *)

\* Builder.__init__: the attributes of a new Builder.  main also passes
\* log_path, the directory for the build logs, which this __init__ does not
\* take; the logs are no part of the model.
Builder(recipe_path, image_type) ==
    [recipe_path |-> recipe_path,
     image_type |-> image_type,
     build_status |-> FALSE,
     build_folder |-> os_path_dirname(recipe_path),
     version |-> get_version_from_recipe(os_path_basename(recipe_path)),
     image_name |-> get_image_name_from_recipe(os_path_basename(recipe_path))]

\* Builder.image_info: "%s/%s.%s" % (build_folder, image_name, image_type)
\* and the collection read from that path
image_info(self) ==
    LET image_full_path == self.build_folder \o Slash \o self.image_name
                           \o Dot \o <<self.image_type>>
    IN  [image_full_path |-> image_full_path,
         collection_name |-> get_collection_from_recipe_path(image_full_path),
         image_version |-> self.version,
         container_name |-> self.image_name]

is_build_status_only(self, imgs) ==
    [self |-> self, returned |-> self.build_status]

is_build_file_only(self, imgs) ==
    LET status == image_info(self).image_full_path \in imgs
    IN  [self |-> [self EXCEPT !.build_status = status], returned |-> status]

\* Builder.is_build on a disk with the image files imgs: the Builder after
\* the call and the value returned
is_build(self, imgs) ==
    LET status == IF self.build_status
                  THEN image_info(self).image_full_path \in imgs
                  ELSE FALSE
    IN  [self |-> [self EXCEPT !.build_status = status], returned |-> status]

\* what the call of singularity does: it cannot be executed or the log file
\* cannot be opened (OSError), it runs and writes the image file, or it runs
\* and writes none (its exit status is not looked at)
BuildOutcomes == {"image", "noimage", "oserror"}

\* Builder.build: the Builder and the disk after the call, and whether
\* OSError was raised
build(self, imgs, outcome) ==
    LET checked == is_build(self, imgs)
    IN  IF checked.returned
        THEN [self |-> checked.self, images |-> imgs, raised |-> FALSE]
        ELSE CASE outcome = "oserror" ->
                    [self |-> checked.self, images |-> imgs, raised |-> TRUE]
               [] outcome = "image" ->
                    [self |-> [checked.self EXCEPT !.build_status = TRUE],
                     images |-> imgs \cup {image_info(self).image_full_path},
                     raised |-> FALSE]
               [] outcome = "noimage" ->
                    [self |-> [checked.self EXCEPT !.build_status = TRUE],
                     images |-> imgs, raised |-> FALSE]

-----------------------------------------------------------------------------
(* The registry client: image_in_sregistry and image_pusher                *)

\* `sregistry search collection/image:version` exits with 0
image_in_sregistry(collection, version, image) ==
    <<collection, image, version>> \in registry

\* The for loop of image_pusher from the attempt after `retry` failed ones;
\* reports[n] says whether the output of attempt n holds 'Return status 201
\* Created'.  returned: the return value, attempts: uploads started,
\* created: an attempt reported success.  A range without elements leaves
\* the loop at once, and the function ends with `return True`.
RECURSIVE PushAttempts(_, _, _)
PushAttempts(reports, retry, retry_threshold) ==
    IF retry >= retry_threshold
    THEN [returned |-> TRUE, attempts |-> retry, created |-> FALSE]
    ELSE IF reports[retry + 1]
    THEN [returned |-> TRUE, attempts |-> retry + 1, created |-> TRUE]
    ELSE IF retry = retry_threshold - 1
    THEN [returned |-> FALSE, attempts |-> retry + 1, created |-> FALSE]
    ELSE PushAttempts(reports, retry + 1, retry_threshold)

image_pusher(reports, retry_threshold) == PushAttempts(reports, 0, retry_threshold)

\* image_pusher's default for retry_threshold
retry_threshold_default == 20

\* the reports main's uploads may get: success from some attempt on, or never
PushReports ==
    {[n \in 1..retry_threshold_default |-> n >= first] :
        first \in 1..(retry_threshold_default + 1)}

-----------------------------------------------------------------------------
(* The file checker: GitLabPushEventInfo.is_modified_file                  *)

\* the path is a key of changed_files and re.findall(r'[AMR].*', type) finds
\* something
is_modified_file(file_path) ==
    /\ file_path \in DOMAIN changed_files
    /\ changed_files[file_path] \in {"A", "M", "R"}

\* what the latest push changed: nothing, the content of one recipe or of
\* every recipe, or every recipe's file type
ChangedFileSets(paths) ==
    {<<>>, [p \in paths |-> "M"], [p \in paths |-> "T"]}
    \cup {[p \in {q} |-> "M"] : q \in paths}

-----------------------------------------------------------------------------
(* The driver: main's loop over the build order                            *)

\* the image a recipe is built into and published as: Builder.image_info
ImageOf(recipe_path) ==
    LET info == image_info(Builder(recipe_path, "simg"))
    IN  <<info.collection_name, info.container_name, info.image_version>>

CurrentRecipe_from_the_end == result[1][Len(result[1]) + 1 - k]

\* the recipe main's loop is at
CurrentRecipe == result[1][k]

Entry(recipe, step, outcome) == [recipe |-> recipe, step |-> step, outcome |-> outcome]

skip_if_image_exists(exists, modified) == exists

\* main skips the recipe: the image is in the sregistry and the recipe file
\* was not modified since the last push
skip_recipe(exists, modified) == exists /\ ~modified

\* main: the Builder for the next recipe is made and the sregistry is asked
\* for its image; a recipe whose image exists and whose file was not
\* modified since the last push is skipped
MainQuery ==
    /\ caller = "main"
    /\ pc = "done"
    /\ k <= Len(result[1])
    /\ LET _builder == Builder(CurrentRecipe, "simg")
           _image_info == image_info(_builder)
           exists == image_in_sregistry(_image_info.collection_name,
                                        _image_info.image_version,
                                        _image_info.container_name)
       IN  IF skip_recipe(exists, is_modified_file(CurrentRecipe))
           THEN /\ k' = k + 1
                /\ log' = log \o <<Entry(CurrentRecipe, "query", ""),
                                   Entry(CurrentRecipe, "skip", "")>>
                /\ UNCHANGED <<builder, pc>>
           ELSE /\ builder' = <<_builder>>
                /\ pc' = "build"
                /\ log' = Append(log, Entry(CurrentRecipe, "query", ""))
                /\ UNCHANGED k
    /\ queried' = queried \cup {CurrentRecipe}
    /\ UNCHANGED <<files, hostname, caller, recipe_file_paths, recipe_base_path,
                   i, stack, dependency_dict, result, err, reads, searches,
                   registry, built, uploaded, probe, images, changed_files>>

\* main: _builder.build(); an OSError is caught and logged
MainBuild ==
    /\ caller = "main"
    /\ pc = "build"
    /\ \E outcome \in BuildOutcomes :
          LET r == build(builder[1], images, outcome)
          IN  /\ builder' = <<r.self>>
              /\ images' = r.images
              /\ log' = Append(log, Entry(builder[1].recipe_path, "build", outcome))
    /\ built' = built \cup {builder[1].recipe_path}
    /\ pc' = "is_build"
    /\ UNCHANGED <<files, hostname, caller, recipe_file_paths, recipe_base_path,
                   i, stack, dependency_dict, result, err, reads, searches, k,
                   registry, queried, uploaded, probe, changed_files>>

\* main: `if _builder.is_build()`; without an image the loop goes on with
\* the next recipe
MainIsBuild ==
    /\ caller = "main"
    /\ pc = "is_build"
    /\ LET r == is_build(builder[1], images)
       IN  IF r.returned
           THEN /\ builder' = <<r.self>>
                /\ pc' = "push"
                /\ UNCHANGED <<k, log>>
           ELSE /\ builder' = <<>>
                /\ pc' = "done"
                /\ k' = k + 1
                /\ log' = Append(log, Entry(builder[1].recipe_path, "nobuild", ""))
    /\ UNCHANGED <<files, hostname, caller, recipe_file_paths, recipe_base_path,
                   i, stack, dependency_dict, result, err, reads, searches,
                   registry, queried, built, uploaded, probe, images, changed_files>>

remove_if_pushed(imgs, image_path, _pushed) ==
    IF _pushed THEN imgs \ {image_path} ELSE imgs

\* os.remove(_image_info['image_full_path']) after image_pusher returned
\* _pushed
remove_after_push(imgs, image_path, _pushed) == imgs \ {image_path}

\* main: image_pusher uploads the image, with or without success, and the
\* local image file is removed
MainPush ==
    /\ caller = "main"
    /\ pc = "push"
    /\ \E reports \in PushReports :
          LET r == image_pusher(reports, retry_threshold_default)
              _image_info == image_info(builder[1])
          IN  /\ registry' = IF r.created
                             THEN registry \cup {<<_image_info.collection_name,
                                                   _image_info.container_name,
                                                   _image_info.image_version>>}
                             ELSE registry
              /\ images' = remove_after_push(images, _image_info.image_full_path,
                                             r.returned)
              /\ log' = log \o <<Entry(builder[1].recipe_path, "push",
                                       IF r.returned THEN "pushed" ELSE "failed"),
                                 Entry(builder[1].recipe_path, "remove", "")>>
    /\ uploaded' = uploaded \cup {builder[1].recipe_path}
    /\ builder' = <<>>
    /\ pc' = "done"
    /\ k' = k + 1
    /\ UNCHANGED <<files, hostname, caller, recipe_file_paths, recipe_base_path,
                   i, stack, dependency_dict, result, err, reads, searches,
                   queried, built, probe, changed_files>>

\* main: the loop is over
MainEnd ==
    /\ caller = "main"
    /\ pc = "done"
    /\ k > Len(result[1])
    /\ pc' = "exit"
    /\ UNCHANGED <<files, hostname, caller, recipe_file_paths, recipe_base_path, i,
                   stack, dependency_dict, result, err, reads, searches, k,
                   builder, registry, queried, built, uploaded, probe, images,
                   changed_files, log>>

\* most recipe files under the search folder of a run of main
MaxMainFiles == 2

MainFileSystems ==
    UNION {[S -> Contents] : S \in {T \in SUBSET CandidateFiles :
                                        T # {} /\ Cardinality(T) <= MaxMainFiles}}

\* a run of main: recipe_finder lists every recipe file under the search
\* folder, in the order glob reports them; the sregistry holds none or all of
\* their images; no image file lies on the disk
InitMain ==
    /\ files \in MainFileSystems
    /\ hostname \in Hostnames
    /\ caller = "main"
    /\ recipe_file_paths \in Permutations_of(DOMAIN files)
    /\ recipe_base_path = Root
    /\ ResolverStart
    /\ k = 1
    /\ builder = <<>>
    /\ registry \in {{}, {ImageOf(f) : f \in DOMAIN files}}
    /\ queried = {}
    /\ built = {}
    /\ uploaded = {}
    /\ images = {}
    /\ changed_files \in ChangedFileSets(DOMAIN files)
    /\ log = <<>>
    /\ probe = <<>>

NextMain ==
    \/ SanityCheck
    \/ LoopCall
    \/ LoopEnd
    \/ DrillMemoHit
    \/ DrillZero
    \/ DrillRaise
    \/ DrillRecurse
    \/ DrillReturn
    \/ MainQuery
    \/ MainBuild
    \/ MainIsBuild
    \/ MainPush
    \/ MainEnd

SpecMain == InitMain /\ [][NextMain]_vars

-----------------------------------------------------------------------------
(* Single calls of the naming parser and of the sanity checker             *)

\* no run of the resolver or of the driver
NoRun ==
    /\ files = <<>>
    /\ hostname = <<>>
    /\ caller = "direct"
    /\ recipe_file_paths = <<>>
    /\ recipe_base_path = Root
    /\ pc = "idle"
    /\ i = 1
    /\ stack = <<>>
    /\ dependency_dict = EmptyDict
    /\ result = <<>>
    /\ err = NoError
    /\ reads = {}
    /\ searches = {}
    /\ DriverIdle

UnchangedRun ==
    UNCHANGED <<files, hostname, caller, recipe_file_paths, recipe_base_path, pc, i,
                stack, dependency_dict, result, err, reads, searches, k, builder,
                registry, queried, built, uploaded, images, changed_files, log>>

\* longest version segment of a recipe file name, in symbols
MaxVersionLen == 3

VersionSymbols == {"1", "0", ".", "recipe"}
Versions == SeqsOf(VersionSymbols, 1, MaxVersionLen)

\* what stands in front of the collection directory
PathPrefixes == {<<>>, <<"/">>, <<"/", "r", "/">>, <<"r", "/", "s", "/">>}

\* the path <prefix><collection>/<image_name>[.<version>].recipe
RecipePath(a) ==
    a.prefix \o <<a.collection, "/", a.image_name>>
    \o (IF a.has_version THEN Dot \o a.version ELSE <<>>) \o RecipeSuffix

NamingArgs ==
    [prefix : PathPrefixes, collection : {"c", "collection_test"},
     image_name : {"x", "test_recipe"}, has_version : {TRUE}, version : Versions]
    \cup
    [prefix : PathPrefixes, collection : {"c", "collection_test"},
     image_name : {"x", "test_recipe"}, has_version : {FALSE}, version : {<<>>}]

InitNaming ==
    /\ NoRun
    /\ \E a \in NamingArgs : probe = [op |-> "naming", arg |-> a, out |-> <<>>]

\* the three naming functions applied to a path, as Builder and
\* recipe_list_sanity_check apply them
NamingApply ==
    /\ probe.op = "naming"
    /\ probe.out = <<>>
    /\ LET path == RecipePath(probe.arg)
       IN  probe' = [probe EXCEPT !.out =
               <<[collection |-> get_collection_from_recipe_path(path),
                  image_name |-> get_image_name_from_recipe(os_path_basename(path)),
                  version |-> get_version_from_recipe(os_path_basename(path))]>>]
    /\ UnchangedRun

SpecNaming == InitNaming /\ [][NamingApply]_vars

\* longest list given to recipe_list_sanity_check
MaxList == 3

Sane_1 == <<"/", "p", "/", "collection", "/", "n", ".", "1", ".", "0", ".", "recipe">>
Sane_2 == <<"/", "p", "/", "collection_two", "/", "n", ".", "1", ".", "0", ".", "recipe">>
Sub_1 == <<"/", "p", "/", "sub", "/", "collection", "/", "n", ".", "1", ".", "0", ".", "recipe">>
Latest_1 == <<"/", "p", "/", "collection", "/", "n", ".", "recipe">>
Colon_name == <<"/", "p", "/", "collection", "/", "n", ":", "1", ".", "0", ".", "recipe">>
Colon_version == <<"/", "p", "/", "collection", "/", "n", ".", "1", ":", "0", ".", "recipe">>
SanityPaths == {Sane_1, Sane_2, Sub_1, Latest_1, Colon_name, Colon_version}

InitSanity ==
    /\ NoRun
    /\ \E paths \in SeqsOf(SanityPaths, 0, MaxList) :
           probe = [op |-> "sanity", arg |-> paths, out |-> <<>>]

\* one call recipe_list_sanity_check(recipe_file_paths=arg)
SanityApply ==
    /\ probe.op = "sanity"
    /\ probe.out = <<>>
    /\ probe' = [probe EXCEPT !.out = <<recipe_list_sanity_check(probe.arg)>>]
    /\ UnchangedRun

SpecSanity == InitSanity /\ [][SanityApply]_vars

-----------------------------------------------------------------------------
(* Single calls of get_dependency_from_recipe                              *)

\* most lines of a recipe file given to get_dependency_from_recipe
MaxLines == 3

\* lines a recipe file may hold: header lines in several spellings, with
\* none, one or two whitespace characters after the colon, with whitespace
\* around the line, and lines that are no header
RecipeLines ==
    { <<"Bootstrap", ":", " ", "shub">>,
      <<"bootstrap", ":", " ", "docker">>,
      <<" ", "BOOTSTRAP", ":", " ", "shub", " ">>,
      <<"Bootstrap", ":">>,
      <<"From", ":", " ", "a">>,
      <<"FROM", ":", " ", "b">>,
      <<"from", ":", "a">>,
      <<"From", ":", " ", " ", "a">>,
      <<"%post">>,
      <<>> }

InitRecipe ==
    /\ NoRun
    /\ \E lines \in SeqsOf(RecipeLines, 0, MaxLines) :
           probe = [op |-> "recipe", arg |-> lines, out |-> <<>>]

\* the dict {_bootstrap: _from} that the function returns
AsDict(d) == [key \in {d.bootstrap} |-> d.from]

\* one call get_dependency_from_recipe(recipe_file_full_path) on a file with
\* the lines arg: it raises UserWarning or returns a dict
RecipeApply ==
    /\ probe.op = "recipe"
    /\ probe.out = <<>>
    /\ LET d == get_dependency_from_recipe(probe.arg)
       IN  probe' = [probe EXCEPT !.out =
               IF d.ok THEN <<[raised |-> FALSE, dict |-> AsDict(d)]>>
                       ELSE <<[raised |-> TRUE, dict |-> <<>>]>>]
    /\ UnchangedRun

SpecRecipe == InitRecipe /\ [][RecipeApply]_vars

-----------------------------------------------------------------------------
(* Single calls of is_own_dependency                                       *)

\* longest generated From value, in symbols
MaxValueLen == 3

\* SREGISTRY_HOSTNAME is a host name, with or without a scheme in front
Schemes == {<<>>, <<"http", ":", "/", "/">>, <<"https", ":", "/", "/">>}
HostNames == {<<"host">>, <<"host", ":", "c">>, <<"c", "host">>, <<>>}

\* From values: every text of up to MaxValueLen symbols, and the values of
\* the tests
DependencyValues ==
    SeqsOf({"host", "/", "c", ":"}, 0, MaxValueLen)
    \cup { <<"collection", "/", "container", ":", "version">>,
           <<"host", "/", "c", "/", "x", ":", "latest">>,
           <<"https", ":", "/", "/", "host", "/", "c", "/", "x">> }

InitOwn ==
    /\ \E scheme \in Schemes, host \in HostNames, value \in DependencyValues :
          /\ hostname = <<scheme \o host>>
          /\ probe = [op |-> "own",
                      arg |-> [scheme |-> scheme, host |-> host, value |-> value],
                      out |-> <<>>]
    /\ files = <<>>
    /\ caller = "direct"
    /\ recipe_file_paths = <<>>
    /\ recipe_base_path = Root
    /\ pc = "idle"
    /\ i = 1
    /\ stack = <<>>
    /\ dependency_dict = EmptyDict
    /\ result = <<>>
    /\ err = NoError
    /\ reads = {}
    /\ searches = {}
    /\ DriverIdle

\* one call is_own_dependency(recipe_dependency_value=arg.value)
OwnApply ==
    /\ probe.op = "own"
    /\ probe.out = <<>>
    /\ probe' = [probe EXCEPT !.out = <<is_own_dependency(probe.arg.value)>>]
    /\ UnchangedRun

SpecOwn == InitOwn /\ [][OwnApply]_vars

-----------------------------------------------------------------------------
(* Single calls of image_pusher                                            *)

\* largest retry_threshold given to image_pusher
MaxRetry == 4

InitPusher ==
    /\ NoRun
    /\ \E retry_threshold \in (-1)..MaxRetry, reports \in [1..MaxRetry -> BOOLEAN] :
          probe = [op |-> "push",
                   arg |-> [retry_threshold |-> retry_threshold, reports |-> reports],
                   out |-> <<>>]

\* one call image_pusher(..., retry_threshold=arg.retry_threshold) whose
\* n-th upload attempt reports success when arg.reports[n]
PusherApply ==
    /\ probe.op = "push"
    /\ probe.out = <<>>
    /\ probe' = [probe EXCEPT !.out =
                    <<image_pusher(probe.arg.reports, probe.arg.retry_threshold)>>]
    /\ UnchangedRun

SpecPusher == InitPusher /\ [][PusherApply]_vars

-----------------------------------------------------------------------------
(* One Builder, its image file, and calls of build and is_build            *)

\* a Builder for one recipe; the image file may lie on the disk already
InitBuilder ==
    /\ \E recipe_path \in CandidateFiles \cup SanityPaths :
          /\ builder = <<Builder(recipe_path, "simg")>>
          /\ images \in SUBSET {image_info(Builder(recipe_path, "simg")).image_full_path}
          /\ probe = [op |-> "builder", arg |-> recipe_path, out |-> <<>>,
                      invoked |-> FALSE, last |-> "init"]
    /\ files = <<>>
    /\ hostname = <<>>
    /\ caller = "direct"
    /\ recipe_file_paths = <<>>
    /\ recipe_base_path = Root
    /\ pc = "idle"
    /\ i = 1
    /\ stack = <<>>
    /\ dependency_dict = EmptyDict
    /\ result = <<>>
    /\ err = NoError
    /\ reads = {}
    /\ searches = {}
    /\ k = 1
    /\ registry = {}
    /\ queried = {}
    /\ built = {}
    /\ uploaded = {}
    /\ changed_files = <<>>
    /\ log = <<>>

UnchangedButBuilder ==
    UNCHANGED <<files, hostname, caller, recipe_file_paths, recipe_base_path, pc, i,
                stack, dependency_dict, result, err, reads, searches, k,
                registry, queried, built, uploaded, changed_files, log>>

\* a call of build()
BuilderBuild ==
    /\ probe.op = "builder"
    /\ \E outcome \in BuildOutcomes :
          LET r == build(builder[1], images, outcome)
          IN  /\ builder' = <<r.self>>
              /\ images' = r.images
    /\ probe' = [probe EXCEPT !.invoked = TRUE, !.last = "build"]
    /\ UnchangedButBuilder

\* a call of is_build(); out keeps what it returned
BuilderIsBuild ==
    /\ probe.op = "builder"
    /\ LET r == is_build(builder[1], images)
       IN  /\ builder' = <<r.self>>
           /\ probe' = [probe EXCEPT !.out = <<r.returned>>, !.last = "is_build"]
    /\ UNCHANGED images
    /\ UnchangedButBuilder

\* the caller removes the image file: os.remove(image_full_path)
ImageRemoved ==
    /\ probe.op = "builder"
    /\ image_info(builder[1]).image_full_path \in images
    /\ images' = images \ {image_info(builder[1]).image_full_path}
    /\ probe' = [probe EXCEPT !.last = "remove"]
    /\ UNCHANGED builder
    /\ UnchangedButBuilder

\* the image file is written by someone else, such as another Builder of a
\* recipe with the same image name in the same folder
ImageWritten ==
    /\ probe.op = "builder"
    /\ image_info(builder[1]).image_full_path \notin images
    /\ images' = images \cup {image_info(builder[1]).image_full_path}
    /\ probe' = [probe EXCEPT !.last = "write"]
    /\ UNCHANGED builder
    /\ UnchangedButBuilder

NextBuilder ==
    \/ BuilderBuild
    \/ BuilderIsBuild
    \/ ImageRemoved
    \/ ImageWritten

SpecBuilder == InitBuilder /\ [][NextBuilder]_vars

-----------------------------------------------------------------------------
(* The latest push of a GitLab response: GitLabPushEventInfo.get_latest_push *)

\* An event of the response is a record with the fields push_data (<<>> when
\* the event has no key "push_data", else the one-element sequence of its
\* push_data object) and created_at.  The text of created_at is kept as the
\* pair <<clock reading, offset of its time zone>>.

\* iso8601.parse_date: the instant the text names; datetimes with a time zone
\* are compared by their instants
parse_date(created_at) == created_at[1] - created_at[2]

\* extract_push_data: the events with the key "push_data" whose
\* push_data["action"] is "pushed", in the order of the response
extract_push_data(git_lab_response) ==
    SelectSeq(git_lab_response,
              LAMBDA event : /\ event.push_data # <<>>
                             /\ event.push_data[1].action = "pushed")

\* the newest push taken to be the first push event of the response
get_latest_push_first_listed(git_lab_response) ==
    LET pushes == extract_push_data(git_lab_response)
    IN  IF pushes = <<>> THEN <<>> ELSE <<pushes[1]>>

\* get_latest_push: None is <<>>, a returned event e is <<e>>; list.index
\* gives the first position that holds the greatest date
get_latest_push(git_lab_response) ==
    LET pushes == extract_push_data(git_lab_response)
        _push_dates == [n \in 1..Len(pushes) |-> parse_date(pushes[n].created_at)]
        _latest_date == Max(Range(_push_dates))
        _latest_push_index == Min({n \in 1..Len(pushes) : _push_dates[n] = _latest_date})
    IN  IF pushes = <<>> THEN <<>> ELSE <<pushes[_latest_push_index]>>

\* most events of a response
MaxEvents == 3

\* values of "created_at": two of them name the same instant in different
\* time zones, and the order of the clock readings is not the order of the
\* instants
Timestamps == { <<10, 0>>, <<11, 2>>, <<12, 0>>, <<12, 2>> }

\* events without push_data (comments, merges), push events, and events with
\* push_data of another action (a removed branch)
Events ==
    [push_data : {<<>>, <<[action |-> "pushed"]>>, <<[action |-> "removed"]>>},
     created_at : Timestamps]

InitLatestPush ==
    /\ NoRun
    /\ \E git_lab_response \in SeqsOf(Events, 0, MaxEvents) :
           probe = [op |-> "latest_push", arg |-> git_lab_response, out |-> <<>>]

\* one call GitLabPushEventInfo.get_latest_push(git_lab_response)
LatestPushApply ==
    /\ probe.op = "latest_push"
    /\ probe.out = <<>>
    /\ probe' = [probe EXCEPT !.out = <<get_latest_push(probe.arg)>>]
    /\ UnchangedRun

SpecLatestPush == InitLatestPush /\ [][LatestPushApply]_vars

-----------------------------------------------------------------------------
(* The resolver as a function of its input list                            *)

\* dependency_drill_down(dependency_dict, recipe_path, recipe_base_path) as a
\* function: the map after the call, or ok = FALSE when an exception leaves
\* it.  `calls` counts the active calls of the function, this one included.
RECURSIVE dependency_drill_down(_, _, _)
dependency_drill_down(d, recipe_path, calls) ==
    IF InDict(d, recipe_path) THEN [ok |-> TRUE, dict |-> d]
    ELSE LET body == DrillBody(recipe_path)
         IN  IF body.kind = "zero"
             THEN [ok |-> TRUE, dict |-> DictUpdate(d, recipe_path, 0)]
             ELSE IF body.kind # "recurse" \/ calls >= RecursionLimit
             THEN [ok |-> FALSE, dict |-> d]
             ELSE LET _parent_file_path == body.found.path
                      r == dependency_drill_down(d, _parent_file_path, calls + 1)
                  IN  IF r.ok
                      THEN [ok |-> TRUE,
                            dict |-> DictUpdate(r.dict, recipe_path,
                                                increment(r.dict.depth[_parent_file_path]))]
                      ELSE r

\* the loop `for recipe in recipe_file_paths` from its n-th round on
RECURSIVE ResolveFrom(_, _, _)
ResolveFrom(paths, n, d) ==
    IF n > Len(paths) THEN [ok |-> TRUE, dict |-> d]
    ELSE LET r == dependency_drill_down(d, paths[n], 1)
         IN  IF r.ok THEN ResolveFrom(paths, n + 1, r.dict) ELSE r

\* dependency_resolver(recipe_file_paths, recipe_base_path) as a function:
\* the depth map at the end of the loop and the returned list, or ok = FALSE
dependency_resolver(paths) ==
    IF resolver_precheck(paths).kind # "none"
    THEN [ok |-> FALSE, dict |-> EmptyDict, list |-> <<>>]
    ELSE LET r == ResolveFrom(paths, 1, EmptyDict)
         IN  [ok |-> r.ok, dict |-> r.dict,
              list |-> IF r.ok THEN sorted_by_depth(r.dict) ELSE <<>>]

-----------------------------------------------------------------------------
(* Repeated calls of dependency_drill_down by a caller of its own          *)

\* most calls the caller makes with the same arguments
MaxCalls == 2

\* a depth some earlier work may have recorded
DepthAlreadyKnown == 1

\* the maps the caller may pass: no work done, or some work done
PassedDicts ==
    {EmptyDict} \cup
    {DictUpdate(EmptyDict, q, v) : q \in DOMAIN files, v \in {0, DepthAlreadyKnown}}

\* the caller holds a map and a recipe path (kept as the one element of
\* recipe_file_paths); pc = "loop" is the caller between two calls and i - 1
\* the number of calls made
InitDrill ==
    /\ files \in FileSystems
    /\ hostname \in Hostnames
    /\ caller = "drill"
    /\ recipe_file_paths \in {<<p>> : p \in DOMAIN files}
    /\ recipe_base_path = Root
    /\ pc = "loop"
    /\ i = 1
    /\ stack = <<>>
    /\ dependency_dict \in PassedDicts
    /\ result = <<>>
    /\ err = NoError
    /\ reads = {}
    /\ searches = {}
    /\ DriverIdle
    /\ probe = <<>>

\* dependency_drill_down(dependency_dict, recipe_path, recipe_base_path),
\* called once more with the same path and the map as the last call left it
DirectCall ==
    /\ caller = "drill"
    /\ pc = "loop"
    /\ i <= MaxCalls
    /\ stack' = <<Frame(recipe_file_paths[1])>>
    /\ i' = i + 1
    /\ pc' = "call"
    /\ UNCHANGED <<files, hostname, caller, recipe_file_paths, recipe_base_path,
                   dependency_dict, result, err, reads, searches, k, builder,
                   registry, queried, built, uploaded, probe, images, changed_files, log>>

NextDrill ==
    \/ DirectCall
    \/ DrillMemoHit
    \/ DrillZero
    \/ DrillRaise
    \/ DrillRecurse
    \/ DrillReturn

SpecDrill == InitDrill /\ [][NextDrill]_vars

-----------------------------------------------------------------------------
(* image_pusher, one upload attempt at a time                              *)

\* `for retry in range(retry_threshold)`: the loop has a round for retry
range_has(retry, retry_threshold) == retry >= 0 /\ retry < retry_threshold

\* an attempt that reported success is followed by another round unless it
\* was the last one
after_attempt_no_break(created, retry, retry_threshold) ==
    IF retry = retry_threshold - 1
    THEN (IF created THEN "break" ELSE "return_false")
    ELSE "retry"

\* what follows an attempt: `break` when the output holds 'Return status 201
\* Created', `return False` after the last round, else the next round
after_attempt(created, retry, retry_threshold) ==
    IF created THEN "break"
    ELSE IF retry = retry_threshold - 1 THEN "return_false"
    ELSE "retry"

\* the images given to image_pusher: collection, version and image name
PushedImages == {ImageOf(f) : f \in CandidateFiles}

\* probe holds the call: retry is the loop variable, started the number of
\* sregistry processes started with Popen, reports what the processes that
\* ended have reported, out the returned value
InitPusherSteps ==
    /\ NoRun
    /\ \E image \in PushedImages, retry_threshold \in (-1)..MaxRetry :
          probe = [op |-> "push_steps",
                   arg |-> [image |-> image, retry_threshold |-> retry_threshold],
                   retry |-> 0, started |-> 0, reports |-> <<>>, out |-> <<>>]

\* subprocess.Popen(['sregistry', 'push', ...]) in a round of the loop
PushPopen ==
    /\ probe.op = "push_steps"
    /\ probe.out = <<>>
    /\ probe.started = Len(probe.reports)
    /\ range_has(probe.retry, probe.arg.retry_threshold)
    /\ probe' = [probe EXCEPT !.started = @ + 1]
    /\ UnchangedRun

\* _process.communicate() returns when the process has ended; its output
\* reports the upload as created or not, and the round ends with break,
\* return False or the next round
PushCommunicate ==
    /\ probe.op = "push_steps"
    /\ probe.out = <<>>
    /\ probe.started = Len(probe.reports) + 1
    /\ \E created \in BOOLEAN :
          LET then == after_attempt(created, probe.retry, probe.arg.retry_threshold)
          IN  probe' = [probe EXCEPT
                  !.reports = Append(@, created),
                  !.retry = IF then = "retry" THEN @ + 1 ELSE @,
                  !.out = CASE then = "break" -> <<TRUE>>
                            [] then = "return_false" -> <<FALSE>>
                            [] OTHER -> <<>>]
    /\ UnchangedRun

\* the loop has no round (left): the function ends with `return True`
PushLoopExhausted ==
    /\ probe.op = "push_steps"
    /\ probe.out = <<>>
    /\ probe.started = Len(probe.reports)
    /\ ~range_has(probe.retry, probe.arg.retry_threshold)
    /\ probe' = [probe EXCEPT !.out = <<TRUE>>]
    /\ UnchangedRun

NextPusherSteps ==
    \/ PushPopen
    \/ PushCommunicate
    \/ PushLoopExhausted

SpecPusherSteps == InitPusherSteps /\ [][NextPusherSteps]_vars

\* the interpreter goes on with the next statement of the function, and
\* every sregistry process that was started ends
FairSpecPusherSteps == SpecPusherSteps /\ WF_vars(NextPusherSteps)

-----------------------------------------------------------------------------
(* Properties of the dependency resolver                                   *)

\* the Bootstrap and From values of the recipe at path
DependencyOf(path) == get_dependency_from_recipe(FileLines(path))

\* the recipe declares a base image of the private registry
HasLocalDependency(path) ==
    /\ DependencyOf(path).ok
    /\ DependencyOf(path).bootstrap = <<"shub">>
    /\ HostnameSet
    /\ is_own_dependency(DependencyOf(path).from)

\* the recipe file the From value of the recipe resolves to
ResolvedParent(path) ==
    get_path_from_dependency(DependencyOf(path).from, recipe_base_path).path

\* x.recipe <- y.1.recipe <- z.1.0.recipe, each child naming its parent with
\* an explicit tag
IsChain ==
    /\ HostnameSet
    /\ DOMAIN files = {File_x, File_y1, File_z10}
    /\ ~HasLocalDependency(File_x) /\ DependencyOf(File_x).ok
    /\ DependencyOf(File_y1).from = <<"host", "/", "c", "/", "x", ":", "latest">>
    /\ DependencyOf(File_z10).from = <<"host", "/", "c", "/", "y", ":", "1">>
    /\ DependencyOf(File_y1).bootstrap = <<"shub">>
    /\ DependencyOf(File_z10).bootstrap = <<"shub">>

\* C1: in a returned list every recipe with a local dependency stands behind
\* the recipe file that dependency resolves to, and for the chain
\* x <- y.1 <- z.1.0 the input [z.1.0, x, y.1] yields [x, y.1, z.1.0].
C1_ParentsBeforeChildren ==
    result # <<>> =>
        /\ \A n \in 1..Len(result[1]) :
               HasLocalDependency(result[1][n]) =>
                   \E m \in 1..(n - 1) : result[1][m] = ResolvedParent(result[1][n])
        /\ (IsChain /\ recipe_file_paths = <<File_z10, File_x, File_y1>>) =>
               result[1] = <<File_x, File_y1, File_z10>>

C1_Witness ==
    /\ IsChain
    /\ recipe_file_paths = <<File_z10, File_x, File_y1>>
    /\ result = << <<File_x, File_y1, File_z10>> >>

\* the number of local-dependency hops from the recipe down to a recipe
\* without local dependency (followed for at most `fuel` hops)
RECURSIVE Hops(_, _)
Hops(path, fuel) ==
    IF fuel = 0 \/ ~HasLocalDependency(path) THEN 0
    ELSE 1 + Hops(ResolvedParent(path), fuel - 1)

\* the first call of dependency_drill_down, on the empty dict, has returned
FirstCallReturned == pc = "loop" /\ i = 2

\* C2: after dependency_drill_down(dict, r) on an empty dict, dict[r] is 0 if
\* r is not a shub recipe or its From value is not local, else the depth of
\* its resolved parent plus one; every recorded depth is the number of
\* local-dependency hops of its recipe.
C2_DepthIsHops ==
    FirstCallReturned =>
        LET r == recipe_file_paths[1]
            depth == dependency_dict.depth
        IN  /\ r \in DOMAIN depth
            /\ \A p \in DOMAIN depth :
                   /\ depth[p] = IF HasLocalDependency(p)
                                 THEN depth[ResolvedParent(p)] + 1 ELSE 0
                   /\ depth[p] = Hops(p, Cardinality(DOMAIN files))
            /\ (IsChain /\ r = File_z10) =>
                   depth = (File_x :> 0) @@ (File_y1 :> 1) @@ (File_z10 :> 2)

C2_Witness ==
    /\ FirstCallReturned
    /\ IsChain
    /\ recipe_file_paths[1] = File_z10
    /\ dependency_dict.depth = (File_x :> 0) @@ (File_y1 :> 1) @@ (File_z10 :> 2)

\* the pattern of the recipe file without a version segment
NoVersionPattern(value) ==
    recipe_base_path \o <<"/", "**", "/">> \o ParseDependency(value).collection
    \o Slash \o ParseDependency(value).container \o RecipeSuffix

\* x.recipe, y.1.recipe from host/c/x (no tag), z.1.0.recipe from host/c/y:1
IsUntaggedChain ==
    /\ HostnameSet
    /\ DOMAIN files = {File_x, File_y1, File_z10}
    /\ ~HasLocalDependency(File_x) /\ DependencyOf(File_x).ok
    /\ DependencyOf(File_y1).from = <<"host", "/", "c", "/", "x">>
    /\ DependencyOf(File_z10).from = <<"host", "/", "c", "/", "y", ":", "1">>
    /\ DependencyOf(File_y1).bootstrap = <<"shub">>
    /\ DependencyOf(File_z10).bootstrap = <<"shub">>

\* C3: a local dependency value with the tag "latest", and equally one
\* without a tag, is searched as <collection>/<image>.recipe; the set
\* x.recipe, y.1.recipe (from host/c/x), z.1.0.recipe (from host/c/y:1)
\* resolves to that order.
C3_LatestAndUntaggedSearchUnversioned ==
    /\ \A s \in searches :
           LET d == ParseDependency(s.value)
           IN  (~d.has_version \/ d.version = <<"latest">>) =>
                   s.pattern = NoVersionPattern(s.value)
    /\ (IsUntaggedChain /\ Len(recipe_file_paths) = 3 /\ pc \in {"done", "error"}) =>
           result = << <<File_x, File_y1, File_z10>> >>

\* the recipe's Bootstrap value is shub
IsShub(path) == DependencyOf(path).ok /\ DependencyOf(path).bootstrap = <<"shub">>

C6_EndsInResolutionFailure ==
    (pc = "error" /\ HostnameSet) =>
        err.kind \in {"invalid", "unresolved", "collision"}

\* the collection, image name and version a recipe path stands for
Identity(path) ==
    <<get_collection_from_recipe_path(path),
      get_image_name_from_recipe(os_path_basename(path)),
      get_version_from_recipe(os_path_basename(path))>>

\* two entries of the list stand for the same image
HasCollision(paths) ==
    \E a, b \in 1..Len(paths) : a < b /\ Identity(paths[a]) = Identity(paths[b])

\* C7: a list with a naming collision fails in the sanity check, before any
\* recipe file is read, any dependency is searched for and any depth is
\* recorded.
C7_SanityCheckFirst ==
    HasCollision(recipe_file_paths) =>
        /\ pc \in {"start", "error"}
        /\ pc = "error" => err.kind = "collision" /\ err.second # NoPath
        /\ reads = {}
        /\ searches = {}
        /\ dependency_dict = EmptyDict
        /\ result = <<>>

C7_Witness ==
    /\ HasCollision(recipe_file_paths)
    /\ Len(recipe_file_paths) = 3
    /\ pc = "error"
    /\ err.kind = "collision"
    /\ err.first = recipe_file_paths[1]
    /\ err.second = recipe_file_paths[3]

\* the recipe files under the base path that match the parsed
\* collection/image[.version] of the value
MatchingFiles(value) ==
    LET d == ParseDependency(value)
        name == IF d.has_version /\ d.version # <<"latest">>
                THEN d.container \o Dot \o d.version \o RecipeSuffix
                ELSE d.container \o RecipeSuffix
    IN  {f \in DOMAIN files :
            /\ StartsWith(f, recipe_base_path \o Slash)
            /\ os_path_basename(f) = name
            /\ get_collection_from_recipe_path(f) = d.collection}

\* C8: for a local dependency value get_path_from_dependency returns a path
\* only when exactly one recipe file matches the parsed
\* collection/image[.version]; with no matching file it fails as unresolved,
\* with several as a naming collision that names them.
C8_ExactlyOneMatch ==
    \A s \in searches :
        LET r == get_path_from_dependency(s.value, recipe_base_path)
            matching == MatchingFiles(s.value)
        IN  /\ r.kind = "ok" => matching = {r.path}
            /\ matching = {} => r.kind = "unresolved"
            /\ Cardinality(matching) > 1 => r.kind = "collision" /\ r.paths = matching

-----------------------------------------------------------------------------
(* Properties of the sanity checker, the naming parser and the driver      *)

\* the call of recipe_list_sanity_check has returned or raised
SanityChecked == probe.op = "sanity" /\ probe.out # <<>>

\* C4 as stated: the check raises exactly when two entries derive the same
\* (collection, image name, version).
C4_RaisesIffSameIdentity ==
    SanityChecked => (probe.out[1].kind = "collision" <=> HasCollision(probe.arg))

\* the text collection/image_name:version of a path
FullNameOf(path) ==
    Identity(path)[1] \o Slash \o Identity(path)[2] \o Colon \o Identity(path)[3]

\* the entry at position n has the full name of an earlier entry
Repeats(paths, n) == \E m \in 1..(n - 1) : FullNameOf(paths[m]) = FullNameOf(paths[n])

NoColonInNames(paths) ==
    \A n \in 1..Len(paths) : ":" \notin Range(os_path_basename(paths[n]))

\* C4 amended: the check raises exactly when two entries derive the same
\* text collection/image_name:version, which for file names without ":" is
\* the same (collection, image name, version); it raises at the first
\* repeated entry and names the first path with that name and the repeated
\* path; otherwise it returns None.  The same name and version in different
\* collections pass; parent directories with the same base name collide.
C4_RaisesIffSameFullName ==
    SanityChecked =>
        LET e == probe.out[1]
            paths == probe.arg
        IN  /\ e.kind = "collision" <=> \E n \in 1..Len(paths) : Repeats(paths, n)
            /\ NoColonInNames(paths) => (e.kind = "collision" <=> HasCollision(paths))
            /\ e.kind = "collision" =>
                   \E m, n \in 1..Len(paths) :
                       /\ m < n
                       /\ e.first = paths[m] /\ e.second = paths[n]
                       /\ FullNameOf(paths[m]) = FullNameOf(paths[n])
                       /\ \A a \in 1..(n - 1) : ~Repeats(paths, a)
                       /\ \A a \in 1..(m - 1) : FullNameOf(paths[a]) # FullNameOf(paths[n])
            /\ e.kind # "collision" => e = NoError
            /\ paths = <<Sane_1, Sane_2>> => e = NoError
            /\ paths = <<Sane_1, Sub_1>> =>
                   e.kind = "collision" /\ e.first = Sane_1 /\ e.second = Sub_1

C4_Witness ==
    /\ SanityChecked
    /\ probe.arg = <<Sane_2, Sane_1, Sub_1>>
    /\ probe.out[1].kind = "collision"
    /\ probe.out[1].first = Sane_1
    /\ probe.out[1].second = Sub_1

\* C9: when a step of the resolution fails, dependency_resolver returns no
\* list, and main builds no image, asks the sregistry about none and uploads
\* none.
C9_FailureStopsRun ==
    /\ err.kind # "none" =>
           /\ pc = "error"
           /\ result = <<>>
           /\ queried = {} /\ built = {} /\ uploaded = {}
           /\ k = 1 /\ builder = <<>>
    /\ (queried # {} \/ built # {} \/ uploaded # {}) =>
           result # <<>> /\ err.kind = "none"

C9_Witness ==
    /\ pc = "error"
    /\ err.kind = "unresolved"
    /\ dependency_dict # EmptyDict
    /\ result = <<>>
    /\ queried = {}

\* the naming functions have been applied
Named == probe.op = "naming" /\ probe.out # <<>>

-----------------------------------------------------------------------------
(* Properties of get_dependency_from_recipe                                *)

RecipeRead == probe.op = "recipe" /\ probe.out # <<>>

\* line n of the file, stripped, is a header line "<header>:" followed by one
\* whitespace character and a value
IsHeaderLine(lines, n, header) ==
    LET line == Strip(lines[n])
    IN  /\ Len(line) >= 4
        /\ Lower(line[1]) = header
        /\ line[2] = ":"
        /\ line[3] = " "

HasHeader(lines, header) == \E n \in 1..Len(lines) : IsHeaderLine(lines, n, header)

\* C11: get_dependency_from_recipe raises the invalid-recipe error exactly
\* when the file has no bootstrap header line or no from header line; else it
\* returns a mapping with exactly one entry, whose key is the value of a
\* bootstrap line and whose value is the value of a from line of the file.
C11_InvalidOrOneEntry ==
    RecipeRead =>
        LET lines == probe.arg
            out == probe.out[1]
        IN  /\ out.raised <=> (~HasHeader(lines, "bootstrap") \/ ~HasHeader(lines, "from"))
            /\ ~out.raised =>
                 /\ Cardinality(DOMAIN out.dict) = 1
                 /\ \A key \in DOMAIN out.dict :
                      /\ \E n \in 1..Len(lines) :
                            /\ IsHeaderLine(lines, n, "bootstrap")
                            /\ key = Tail_from(Strip(lines[n]), 4)
                      /\ \E n \in 1..Len(lines) :
                            /\ IsHeaderLine(lines, n, "from")
                            /\ out.dict[key] = Tail_from(Strip(lines[n]), 4)

\* a file with only a bootstrap line was refused and a file with both header
\* lines was read: here the second case
C11_Witness ==
    /\ RecipeRead
    /\ probe.arg = << <<"Bootstrap", ":", " ", "shub">>, <<"%post">>, <<"From", ":", " ", "a">> >>
    /\ ~probe.out[1].raised
    /\ probe.out[1].dict = [key \in {<<"shub">>} |-> <<"a">>]

-----------------------------------------------------------------------------
(* Properties of is_own_dependency                                         *)

OwnAnswered == probe.op = "own" /\ probe.out # <<>>

\* the text h stands somewhere in the text v
OccursIn(h, v) ==
    \E p \in 0..(Len(v) - Len(h)) : \A j \in 1..Len(h) : v[p + j] = h[j]

\* C12: is_own_dependency(value) is true exactly when the configured host,
\* without a leading http:// or https://, occurs in value; so the answer is
\* the same for a host configured with and without a scheme, and a value
\* that does not contain the host is not local.
C12_HostOccursInValue ==
    OwnAnswered => (probe.out[1] <=> OccursIn(probe.arg.host, probe.arg.value))

\* the host is configured as https://host and the value names it
C12_Witness ==
    /\ OwnAnswered
    /\ probe.arg.scheme = <<"https", ":", "/", "/">>
    /\ probe.arg.host = <<"host">>
    /\ probe.arg.value = <<"host", "/", "c", "/", "x", ":", "latest">>
    /\ probe.out[1] = TRUE

-----------------------------------------------------------------------------
(* Properties of the returned list                                         *)

\* how often the path p stands in the list s
Occurrences(s, p) == Cardinality({n \in 1..Len(s) : s[n] = p})

\* C13: the list dependency_resolver returns is a reordering of its input:
\* every path of recipe_file_paths stands in it exactly once and it holds no
\* path that is not in recipe_file_paths.
C13_ResultIsReordering ==
    result # <<>> =>
        /\ \A p \in Range(recipe_file_paths) : Occurrences(result[1], p) = 1
        /\ Range(result[1]) \subseteq Range(recipe_file_paths)

-----------------------------------------------------------------------------
(* Properties of main's loop                                               *)

\* the steps after which main is done with a recipe
FinalSteps == {"skip", "nobuild", "remove"}

\* the entries of the log that start the work on a recipe
QueryPositions == {n \in 1..Len(log) : log[n].step = "query"}

\* the place of the entry n among the recipes main started
TurnOf(n) == Cardinality({m \in QueryPositions : m <= n})

\* main is done with the recipe at path
Processed(path) ==
    \E n \in 1..Len(log) : log[n].recipe = path /\ log[n].step \in FinalSteps

-----------------------------------------------------------------------------
(* Properties of image_pusher                                              *)

PusherReturned == probe.op = "push" /\ probe.out # <<>>

\* C18: for every retry_threshold image_pusher returns True exactly when one
\* of the upload attempts it made reported success, and False otherwise.
C18_ReturnsUploadSuccess ==
    PusherReturned =>
        (probe.out[1].returned
            <=> \E n \in 1..probe.out[1].attempts : probe.arg.reports[n])

-----------------------------------------------------------------------------
(* Properties of Builder.is_build                                          *)

\* is_build() is the call made last, and probe.out[1] is what it returned
IsBuildReturned == probe.op = "builder" /\ probe.last = "is_build"

\* C19: is_build() returns True only if build() has been invoked on this
\* Builder and the image file exists at image_full_path at the time of the
\* call; so it returns False before any build() and after the image file has
\* been removed; and after every call build_status is the value returned.
C19_IsBuildOnlyAfterBuildWithImage ==
    IsBuildReturned =>
        /\ probe.out[1] =>
              /\ probe.invoked
              /\ image_info(builder[1]).image_full_path \in images
        /\ builder[1].build_status = probe.out[1]

\* build() was invoked, the image file is there and is_build() returned True
C19_Witness ==
    /\ IsBuildReturned
    /\ probe.invoked
    /\ probe.out[1] = TRUE
    /\ builder[1].build_status

-----------------------------------------------------------------------------
(* Properties of GitLabPushEventInfo.get_latest_push                       *)

LatestPushReturned == probe.op = "latest_push" /\ probe.out # <<>>

\* positions of the events that carry push_data with the action "pushed"
PushedPositions(response) ==
    {n \in 1..Len(response) :
        /\ response[n].push_data # <<>>
        /\ response[n].push_data[1].action = "pushed"}

\* C21: get_latest_push returns, among the events that carry push_data with
\* the action "pushed", one whose created_at names the greatest instant;
\* events without push_data are passed over wherever they stand, and None is
\* returned when the response holds no push event.
C21_LatestPushedEvent ==
    LatestPushReturned =>
        LET response == probe.arg
            returned == probe.out[1]
            pushed == PushedPositions(response)
        IN  IF pushed = {}
            THEN returned = <<>>
            ELSE /\ returned # <<>>
                 /\ \E n \in pushed :
                       /\ returned[1] = response[n]
                       /\ \A m \in pushed :
                             parse_date(response[m].created_at)
                                 <= parse_date(response[n].created_at)

\* the newest event of the response has no push_data and stands first; of
\* the two push events the one listed last, with the smaller clock reading,
\* is the later one and is returned
C21_Witness ==
    /\ LatestPushReturned
    /\ probe.arg = << [push_data |-> <<>>, created_at |-> <<12, 0>>],
                      [push_data |-> <<[action |-> "pushed"]>>, created_at |-> <<11, 2>>],
                      [push_data |-> <<[action |-> "pushed"]>>, created_at |-> <<10, 0>>] >>
    /\ probe.out[1] = << [push_data |-> <<[action |-> "pushed"]>>, created_at |-> <<10, 0>>] >>

-----------------------------------------------------------------------------
(* Which lines of a recipe get_dependency_from_recipe takes its values from *)

\* the lines of the file that are header lines of the given header
HeaderLines(lines, header) == {n \in 1..Len(lines) : IsHeaderLine(lines, n, header)}

\* the value of the header line n
ValueOfLine(lines, n) == Tail_from(Strip(lines[n]), 4)

\* the first line after which both headers have been read
BothFoundAt(lines) ==
    Min({n \in 1..Len(lines) :
            /\ \E b \in HeaderLines(lines, "bootstrap") : b <= n
            /\ \E f \in HeaderLines(lines, "from") : f <= n})

\* C22 as stated: the returned mapping is made of the value of the first
\* bootstrap header line and the value of the first from header line of the
\* file.
C22_FirstLinesWin ==
    (RecipeRead /\ ~probe.out[1].raised) =>
        LET lines == probe.arg
            b == Min(HeaderLines(lines, "bootstrap"))
            f == Min(HeaderLines(lines, "from"))
        IN  probe.out[1].dict = [key \in {ValueOfLine(lines, b)} |-> ValueOfLine(lines, f)]

\* C22: the scan stops at the first line after which a bootstrap header line
\* and a from header line have both been read; the returned mapping is made,
\* for each header, of the value of its last header line up to and including
\* that line, and no line behind it is considered.
C22_LastLinesUntilBothFound ==
    (RecipeRead /\ ~probe.out[1].raised) =>
        LET lines == probe.arg
            stop == BothFoundAt(lines)
            b == Max({n \in HeaderLines(lines, "bootstrap") : n <= stop})
            f == Max({n \in HeaderLines(lines, "from") : n <= stop})
        IN  probe.out[1].dict = [key \in {ValueOfLine(lines, b)} |-> ValueOfLine(lines, f)]

\* two bootstrap lines stand before the from line: the second one is returned
C22_Witness ==
    /\ RecipeRead
    /\ probe.arg = << <<"bootstrap", ":", " ", "docker">>,
                      <<"Bootstrap", ":", " ", "shub">>,
                      <<"From", ":", " ", "a">> >>
    /\ ~probe.out[1].raised
    /\ probe.out[1].dict = [key \in {<<"shub">>} |-> <<"a">>]

-----------------------------------------------------------------------------
(* Whitespace between the colon of a header line and its value              *)

\* line n, stripped, is "<header>:" followed by any amount of whitespace and
\* a value
IsHeaderLineAnyWhitespace(lines, n, header) ==
    LET line == Strip(lines[n])
    IN  /\ Len(line) >= 3
        /\ Lower(line[1]) = header
        /\ line[2] = ":"

\* the text behind the colon of line n and the whitespace that follows it
ValueAfterWhitespace(lines, n) == Strip(Tail_from(Strip(lines[n]), 3))

\* C23: a header line is recognised with no, one or several whitespace
\* characters between the colon and the value, in any spelling of the header
\* name, and its value is the text behind that whitespace: a file with one
\* such bootstrap line and one such from line yields the mapping from the one
\* value to the other.
C23_AnyWhitespaceAfterColon ==
    RecipeRead =>
        LET lines == probe.arg
            bs == {n \in 1..Len(lines) : IsHeaderLineAnyWhitespace(lines, n, "bootstrap")}
            fs == {n \in 1..Len(lines) : IsHeaderLineAnyWhitespace(lines, n, "from")}
        IN  \A b \in bs, f \in fs :
                (bs = {b} /\ fs = {f}) =>
                    /\ ~probe.out[1].raised
                    /\ probe.out[1].dict =
                           [key \in {ValueAfterWhitespace(lines, b)} |->
                                ValueAfterWhitespace(lines, f)]

-----------------------------------------------------------------------------
(* Properties of the depth map during a resolution pass                     *)

\* the place of a key in the insertion order of the map
RecordedAt(d, path) == Min({n \in 1..Len(d.keys) : d.keys[n] = path})

\* C24: the depth map is write-once: no step of dependency_resolver or of
\* dependency_drill_down changes or removes an entry the map holds, whether
\* the entry was recorded by the running call, by an earlier call of the
\* pass, or stood in the map when dependency_drill_down was called; the keys
\* recorded so far keep their places in the insertion order.
C24_WriteOnce ==
    [][ /\ \A p \in DOMAIN dependency_dict.depth :
              /\ p \in DOMAIN dependency_dict'.depth
              /\ dependency_dict'.depth[p] = dependency_dict.depth[p]
        /\ Len(dependency_dict'.keys) >= Len(dependency_dict.keys)
        /\ SubSeq(dependency_dict'.keys, 1, Len(dependency_dict.keys)) = dependency_dict.keys
      ]_vars

\* x.recipe was recorded by the first call; the second call, on z.1.0.recipe,
\* was given the map with that entry, met it at the end of its chain and
\* added the two other entries
C24_Witness ==
    /\ IsChain
    /\ recipe_file_paths = <<File_x, File_z10>>
    /\ pc = "done"
    /\ dependency_dict.keys = <<File_x, File_y1, File_z10>>
    /\ dependency_dict.depth = (File_x :> 0) @@ (File_y1 :> 1) @@ (File_z10 :> 2)

\* C28: at every point of a resolution pass that starts from an empty map,
\* every key with a depth d > 0 is a recipe with a local dependency whose
\* resolved parent is a key with the depth d - 1 and was recorded earlier,
\* and every key with the depth 0 is a recipe without a local dependency.
C28_ClosedUnderParents ==
    \A p \in DOMAIN dependency_dict.depth :
        IF dependency_dict.depth[p] > 0
        THEN /\ HasLocalDependency(p)
             /\ ResolvedParent(p) \in DOMAIN dependency_dict.depth
             /\ dependency_dict.depth[ResolvedParent(p)] = dependency_dict.depth[p] - 1
             /\ RecordedAt(dependency_dict, ResolvedParent(p)) < RecordedAt(dependency_dict, p)
        ELSE /\ dependency_dict.depth[p] = 0
             /\ ~HasLocalDependency(p)

\* in the middle of the call on z.1.0.recipe: x.recipe and y.1.recipe are
\* recorded, the call on z.1.0.recipe waits to record its own depth
C28_Witness ==
    /\ IsChain
    /\ recipe_file_paths[1] = File_z10
    /\ pc = "return"
    /\ Len(stack) = 1
    /\ dependency_dict.keys = <<File_x, File_y1>>
    /\ dependency_dict.depth = (File_x :> 0) @@ (File_y1 :> 1)

-----------------------------------------------------------------------------
(* Properties of the order of the returned list                            *)

\* the recipe and the recipes its local dependencies lead to, followed for at
\* most `fuel` hops
RECURSIVE Ancestry(_, _)
Ancestry(path, fuel) ==
    IF fuel = 0 \/ ~HasLocalDependency(path) THEN {path}
    ELSE {path} \cup Ancestry(ResolvedParent(path), fuel - 1)

\* the round of the loop over the input list in which the recipe is visited
\* first, as the recipe of that round or as one its dependencies lead to
FirstVisit(path) ==
    Min({n \in 1..Len(recipe_file_paths) :
            path \in Ancestry(recipe_file_paths[n], Cardinality(DOMAIN files))})

\* C26: the returned list holds every key of the depth map once, in
\* non-decreasing depth; recipes of equal depth stand in the order in which
\* their entries were recorded, which is the order in which the rounds of the
\* loop visited them first (a parent reached through a child comes before a
\* recipe that stands earlier in the input but was visited later).
C26_DepthThenRecordingOrder ==
    (caller = "direct" /\ pc = "done") =>
        LET list == result[1]
            depth == dependency_dict.depth
        IN  /\ Range(list) = DOMAIN depth
            /\ Len(list) = Cardinality(DOMAIN depth)
            /\ \A a, b \in 1..Len(list) :
                   a < b =>
                       /\ depth[list[a]] <= depth[list[b]]
                       /\ depth[list[a]] = depth[list[b]] =>
                              /\ RecordedAt(dependency_dict, list[a])
                                     < RecordedAt(dependency_dict, list[b])
                              /\ FirstVisit(list[a]) < FirstVisit(list[b])

\* y.1.recipe is built on x.recipe, z.1.0.recipe on a foreign image: x.recipe
\* is recorded in the round of y.1.recipe and stands before z.1.0.recipe,
\* which is earlier in the input
C26_Witness ==
    /\ HostnameSet
    /\ DOMAIN files = {File_x, File_y1, File_z10}
    /\ HasLocalDependency(File_y1)
    /\ recipe_file_paths = <<File_y1, File_z10, File_x>>
    /\ pc = "done"
    /\ result = << <<File_x, File_z10, File_y1>> >>

-----------------------------------------------------------------------------
(* Properties of the test for a local dependency                           *)

\* C30: a recipe has a depth greater than 0 only if its bootstrap value is
\* exactly "shub" and its from value contains the private host.  A recipe
\* with another bootstrap value ("docker", "SHUB") gets the depth 0 when it
\* is read: no failure of the hostname lookup or of the search for a parent
\* is raised for it, also when no hostname is configured, and every search
\* made is for the from value of a recipe whose bootstrap value is "shub".
C30_DepthOnlyForShubOnPrivateHost ==
    /\ \A p \in DOMAIN dependency_dict.depth :
           dependency_dict.depth[p] > 0 =>
               /\ DependencyOf(p).bootstrap = <<"shub">>
               /\ HostnameSet
               /\ OccursIn(StripScheme(hostname[1]), DependencyOf(p).from)
    /\ \A p \in reads :
           (DependencyOf(p).ok /\ DependencyOf(p).bootstrap # <<"shub">>) =>
               /\ p \in DOMAIN dependency_dict.depth
               /\ dependency_dict.depth[p] = 0
               /\ err.first # p
    /\ \A s \in searches :
           \E p \in reads : /\ DependencyOf(p).bootstrap = <<"shub">>
                            /\ DependencyOf(p).from = s.value

\* y.1.recipe says "Bootstrap: SHUB" and names the image of x.recipe on the
\* private host: it gets the depth 0 and no parent is searched
C30_Witness ==
    /\ HostnameSet
    /\ DOMAIN files = {File_x, File_y1}
    /\ DependencyOf(File_y1).bootstrap = <<"SHUB">>
    /\ OccursIn(StripScheme(hostname[1]), DependencyOf(File_y1).from)
    /\ pc = "done"
    /\ dependency_dict.depth = (File_x :> 0) @@ (File_y1 :> 0)
    /\ searches = {}

-----------------------------------------------------------------------------
(* Properties of the resolver under reordering of its input                *)

\* C29: the depth of a recipe does not depend on the order of the input
\* list: the resolver run on any other order of the same recipes, over the
\* same files, ends with the same depth for every recipe, and its list shows
\* the same recipes with the same depth at every position, so that only
\* recipes of equal depth may have changed places.
C29_DepthIndependentOfInputOrder ==
    (caller = "direct" /\ pc = "done") =>
        /\ dependency_resolver(recipe_file_paths).list = result[1]
        /\ \A other \in Permutations_of(Range(recipe_file_paths)) :
               LET run == dependency_resolver(other)
               IN  /\ run.ok
                   /\ run.dict.depth = dependency_dict.depth
                   /\ Range(run.list) = Range(result[1])
                   /\ Len(run.list) = Len(result[1])
                   /\ \A n \in 1..Len(run.list) :
                          dependency_dict.depth[run.list[n]]
                              = dependency_dict.depth[result[1][n]]

\* y.1.recipe is built on x.recipe, z.1.0.recipe on a foreign image: the
\* input [y.1, z.1.0, x] gives [x, z.1.0, y.1], the input [z.1.0, y.1, x]
\* gives [z.1.0, x, y.1], with the same depths
C29_Witness ==
    /\ HostnameSet
    /\ DOMAIN files = {File_x, File_y1, File_z10}
    /\ HasLocalDependency(File_y1)
    /\ recipe_file_paths = <<File_y1, File_z10, File_x>>
    /\ pc = "done"
    /\ result = << <<File_x, File_z10, File_y1>> >>
    /\ dependency_dict.depth = (File_x :> 0) @@ (File_y1 :> 1) @@ (File_z10 :> 0)
    /\ dependency_resolver(<<File_z10, File_y1, File_x>>).list = <<File_z10, File_x, File_y1>>
    /\ dependency_resolver(<<File_z10, File_y1, File_x>>).dict.depth = dependency_dict.depth

-----------------------------------------------------------------------------
(* Properties of repeated calls of dependency_drill_down                   *)

\* a call has returned and the caller is about to call again, or has called
\* again
CalledAgain == caller = "drill" /\ i >= 3 /\ pc = "call"

\* C25: when dependency_drill_down has returned and is called again with the
\* same recipe path and the map as it is, the call finds the path in the map
\* and returns in its first step: the map, with its insertion order, is as
\* before, no recipe file is read and no parent is searched.
C25_SecondCallIsMemoHit ==
    [][ /\ (caller = "drill" /\ i >= 2 /\ pc = "loop") =>
              /\ pc' = "call"
              /\ dependency_dict' = dependency_dict
              /\ reads' = reads
              /\ searches' = searches
        /\ CalledAgain =>
              /\ stack[1].recipe_path \in DOMAIN dependency_dict.depth
              /\ pc' = "loop"
              /\ stack' = <<>>
              /\ dependency_dict' = dependency_dict
              /\ reads' = reads
              /\ searches' = searches
              /\ err' = err
      ]_vars

\* the first call on z.1.0.recipe, with an empty map, read the three recipes
\* of the chain and recorded them; the second call has returned
C25_Witness ==
    /\ caller = "drill"
    /\ IsChain
    /\ recipe_file_paths = <<File_z10>>
    /\ i = 3
    /\ pc = "loop"
    /\ reads = {File_x, File_y1, File_z10}
    /\ dependency_dict.keys = <<File_x, File_y1, File_z10>>
    /\ dependency_dict.depth = (File_x :> 0) @@ (File_y1 :> 1) @@ (File_z10 :> 2)

-----------------------------------------------------------------------------
(* Properties of the upload attempts of image_pusher                       *)

PushInSteps == probe.op = "push_steps"

\* C27: image_pusher starts at most retry_threshold upload attempts (none
\* when retry_threshold is not positive), each one after the one before has
\* ended, starts no attempt after the first one that reports success, and
\* returns.
C27_BoundedAttemptsThenReturn ==
    /\ [](PushInSteps =>
            /\ probe.started <= probe.arg.retry_threshold \/ probe.started = 0
            /\ probe.started - Len(probe.reports) \in {0, 1}
            /\ \A n \in 1..Len(probe.reports) :
                   probe.reports[n] => (n = Len(probe.reports) /\ probe.started = n)
            /\ probe.out # <<>> => probe.started = Len(probe.reports))
    /\ <>(PushInSteps /\ probe.out # <<>>)

\* with retry_threshold 3 the first attempt failed and the second reported
\* success: the call has returned after two attempts
C27_Witness ==
    /\ PushInSteps
    /\ probe.arg.retry_threshold = 3
    /\ probe.reports = <<FALSE, TRUE>>
    /\ probe.started = 2
    /\ probe.out = <<TRUE>>

=============================================================================
